---- MODULE Spec2Model ----
(***************************************************************************)
(* The router of src/Data_Analysis_agent.ipynb: run_agent and              *)
(* handle_tool_calls, with the three registered tools, the OpenAI engine   *)
(* as a nondeterministic environment and the caller that passes a query    *)
(* string or a message list (and may pass the same list again).            *)
(***************************************************************************)
EXTENDS Integers, Sequences, FiniteSets, TLC

VARIABLES
    arg_is_str,        \* isinstance(messages, str) for the argument of run_agent
    messages,          \* the list `messages` of run_agent (the caller's list when a list was passed)
    pc,                \* position of run_agent: entry, call_engine, dispatch, append, returned, raised
    error,             \* the exception that left run_agent, "none" if none
    result,            \* the value run_agent returned
    tool_calls,        \* response.choices[0].message.tool_calls of the current round
    idx,               \* position of the for loop of handle_tool_calls (1-based)
    pending,           \* `result` of handle_tool_calls, computed and not yet appended
    next_id,           \* the engine's next fresh tool-call identifier
    runs,              \* number of run_agent invocations started on this conversation
    engine_calls,      \* client.chat.completions.create calls of the current invocation
    responses,         \* the engine's responses of the current invocation, in order
    invoked,           \* tool calls whose implementation was called in the current invocation, in order
    checks,            \* number of system-prompt checks performed on this conversation
    failed,            \* identifiers of the tool calls whose execution hit a failure inside the tool
    other,             \* the locals of a second run_agent interaction while the first one runs
    shared,            \* the two interactions were passed the same list object
    stop_requested,    \* a caller has signalled the interaction to stop
    chart              \* one call of extract_chart_config: its arguments, the engine's output, its outcome

vars == <<arg_is_str, messages, pc, error, result, tool_calls, idx, pending,
          next_id, runs, engine_calls, responses, invoked, checks, failed,
          other, shared, stop_requested, chart>>

\* what run_agent on a single conversation neither reads nor writes
outside == <<other, shared, stop_requested, chart>>

----------------------------------------------------------------------------
(* Bounds of the model *)

\* what one conversation may use up: the tool calls the engine requests over
\* the conversation plus the times the caller passes the list again
MaxBudget == 3

\* the times two interleaved interactions may take turns
MaxSwitches == 2

----------------------------------------------------------------------------
(* Values *)

\* Python's None as a message content or a returned value
NONE == "<None>"

SYSTEM_PROMPT == "You are a helpful assistant"

Query == "Show me sales by store"

\* the three tools of tool_implementations
Registry == {"lookup_sales_data", "analyze_sales_data", "generate_visualization"}

\* the parameters of each tool's def; none has a default value
Params(name) ==
    CASE name = "lookup_sales_data" -> {"prompt"}
      [] name = "analyze_sales_data" -> {"prompt", "data"}
      [] name = "generate_visualization" -> {"data", "visualization_goal"}
      [] OTHER -> {}

\* raw argument payloads (tool_call.function.arguments) the engine may emit
ARGS_PROMPT == "{\"prompt\": \"q\"}"
ARGS_PROMPT_DATA == "{\"prompt\": \"q\", \"data\": \"d\"}"
ARGS_DATA_GOAL == "{\"data\": \"d\", \"visualization_goal\": \"g\"}"
ARGS_PROMPT_INT == "{\"prompt\": 5}"
ARGS_ARRAY == "[1, 2]"
ARGS_TRUNCATED == "{\"prompt\": "

\* json.loads: raises JSONDecodeError on text that is no JSON document,
\* otherwise returns the parsed value (a dict for a JSON object)
JsonLoads(raw) ==
    CASE raw = ARGS_PROMPT ->
           [ok |-> TRUE, is_dict |-> TRUE, keys |-> {"prompt"}, all_str |-> TRUE]
      [] raw = ARGS_PROMPT_DATA ->
           [ok |-> TRUE, is_dict |-> TRUE, keys |-> {"prompt", "data"}, all_str |-> TRUE]
      [] raw = ARGS_DATA_GOAL ->
           [ok |-> TRUE, is_dict |-> TRUE, keys |-> {"data", "visualization_goal"}, all_str |-> TRUE]
      [] raw = ARGS_PROMPT_INT ->
           [ok |-> TRUE, is_dict |-> TRUE, keys |-> {"prompt"}, all_str |-> FALSE]
      [] raw = ARGS_ARRAY ->
           [ok |-> TRUE, is_dict |-> FALSE, keys |-> {}, all_str |-> FALSE]
      [] OTHER ->
           [ok |-> FALSE, is_dict |-> FALSE, keys |-> {}, all_str |-> FALSE]

\* function(**function_args): TypeError unless function_args is a mapping
\* whose keys are exactly the parameters; the values' types are not checked
CallBinds(name, parsed) == parsed.is_dict /\ parsed.keys = Params(name)

\* the payload matches the schema declared in `tools` for the tool
SchemaValid(name, raw) ==
    /\ JsonLoads(raw).ok
    /\ JsonLoads(raw).is_dict
    /\ JsonLoads(raw).keys = Params(name)
    /\ JsonLoads(raw).all_str

----------------------------------------------------------------------------
(* Messages *)

UserMessage(q) ==
    [role |-> "user", content |-> q, tool_call_id |-> 0, tool_calls |-> <<>>,
     tc_none |-> TRUE, is_dict |-> TRUE]

SystemMessage ==
    [role |-> "system", content |-> SYSTEM_PROMPT, tool_call_id |-> 0,
     tool_calls |-> <<>>, tc_none |-> TRUE, is_dict |-> TRUE]

\* response.choices[0].message: a ChatCompletionMessage object, not a dict
AssistantMessage(resp) ==
    [role |-> "assistant", content |-> resp.content, tool_call_id |-> 0,
     tool_calls |-> resp.tool_calls, tc_none |-> resp.tc_none, is_dict |-> FALSE]

ToolMessageShifted(tc, res) ==
    [role |-> "tool", content |-> res, tool_call_id |-> tc.id + 1,
     tool_calls |-> <<>>, tc_none |-> TRUE, is_dict |-> TRUE]

ToolMessage(tc, res) ==
    [role |-> "tool", content |-> res, tool_call_id |-> tc.id,
     tool_calls |-> <<>>, tc_none |-> TRUE, is_dict |-> TRUE]

\* any(isinstance(message, dict) and message.get("role") == "system" ...)
HasSystemPrompt(msgs) ==
    \E i \in 1..Len(msgs) : msgs[i].is_dict /\ msgs[i].role = "system"

EnsureAlwaysAppends(msgs) == Append(msgs, SystemMessage)

EnsureInsertsFirst(msgs) ==
    IF HasSystemPrompt(msgs) THEN msgs ELSE <<SystemMessage>> \o msgs

\* the system-prompt check of run_agent
EnsureSystemPrompt(msgs) ==
    IF HasSystemPrompt(msgs) THEN msgs ELSE Append(msgs, SystemMessage)

TruthyNotNone(resp) == ~resp.tc_none

\* bool(tool_calls): None and the empty list are falsy
Truthy(resp) == ~resp.tc_none /\ Len(resp.tool_calls) > 0

ReturnValueConstant(resp) == "done"

\* return response.choices[0].message.content
ReturnValue(resp) == resp.content

----------------------------------------------------------------------------
(* The engine: an environment that answers with text or with tool calls *)

Texts == {"answer", "", NONE}

EngineRequests ==
    { [name |-> "lookup_sales_data", arguments |-> ARGS_PROMPT],
      [name |-> "analyze_sales_data", arguments |-> ARGS_PROMPT_DATA],
      [name |-> "generate_visualization", arguments |-> ARGS_DATA_GOAL],
      [name |-> "lookup_sales_data", arguments |-> ARGS_PROMPT_INT],
      [name |-> "analyze_sales_data", arguments |-> ARGS_PROMPT],
      [name |-> "lookup_sales_data", arguments |-> ARGS_ARRAY],
      [name |-> "lookup_sales_data", arguments |-> ARGS_TRUNCATED],
      [name |-> "run_python", arguments |-> ARGS_PROMPT] }

Batches(n) == UNION { [1..k -> EngineRequests] : k \in 1..n }

\* the engine tags the requests of a response with fresh identifiers
WithIds(batch, first) ==
    [k \in 1..Len(batch) |->
        [id |-> first + k - 1, name |-> batch[k].name, arguments |-> batch[k].arguments]]

PlainResponses ==
    { [content |-> c, tool_calls |-> <<>>, tc_none |-> b] : c \in Texts, b \in BOOLEAN }

ToolCallResponses(first, n) ==
    { [content |-> NONE, tool_calls |-> WithIds(b, first), tc_none |-> FALSE] : b \in Batches(n) }

----------------------------------------------------------------------------
(* The tools *)

ToolOutput(name) ==
    CASE name = "lookup_sales_data" -> "rows"
      [] name = "analyze_sales_data" -> "analysis"
      [] name = "generate_visualization" -> "code"
      [] OTHER -> NONE

\* lookup_sales_data wraps its whole body in try/except Exception;
\* analyze_sales_data and generate_visualization call the client outside any try
CatchesFailure(name) == name = "lookup_sales_data"

ERROR_TEXT == "Error accessing data"

----------------------------------------------------------------------------
(* The caller's argument *)

InitialLists ==
    { <<UserMessage(Query)>>,
      <<SystemMessage, UserMessage(Query)>> }

Init ==
    /\ arg_is_str \in BOOLEAN
    /\ messages \in (IF arg_is_str THEN {<<>>} ELSE InitialLists)
    /\ pc = "entry"
    /\ error = "none"
    /\ result = NONE
    /\ tool_calls = <<>>
    /\ idx = 1
    /\ pending = NONE
    /\ next_id = 1
    /\ runs = 1
    /\ engine_calls = 0
    /\ responses = <<>>
    /\ invoked = <<>>
    /\ checks = 0
    /\ failed = {}
    /\ other = [pc |-> "absent"]
    /\ shared = FALSE
    /\ stop_requested = FALSE
    /\ chart = [pc |-> "absent"]

----------------------------------------------------------------------------
(* run_agent *)

\* run_agent, up to the while loop: a string becomes a one-message list,
\* then the system prompt is checked and added if needed
EnterRunAgent ==
    /\ pc = "entry"
    /\ messages' = EnsureSystemPrompt(IF arg_is_str THEN <<UserMessage(Query)>> ELSE messages)
    /\ checks' = checks + 1
    /\ pc' = "call_engine"
    /\ UNCHANGED <<arg_is_str, error, result, tool_calls, idx, pending, next_id,
                   runs, engine_calls, responses, invoked, failed>>
    /\ UNCHANGED outside

\* the part of the budget used so far
Used == (next_id - 1) + (runs - 1)

\* the responses the engine can give now (the budget left caps the batch)
EngineResponses ==
    PlainResponses \cup ToolCallResponses(next_id, MaxBudget - Used)

\* one round of the while loop up to the branch on tool_calls: the engine is
\* called and answers, the answer is appended, and run_agent either enters
\* handle_tool_calls or returns the answer's content
CallEngine ==
    /\ pc = "call_engine"
    /\ \E resp \in EngineResponses :
        /\ messages' = Append(messages, AssistantMessage(resp))
        /\ tool_calls' = resp.tool_calls
        /\ next_id' = next_id + Len(resp.tool_calls)
        /\ engine_calls' = engine_calls + 1
        /\ responses' = Append(responses, resp)
        /\ idx' = 1
        /\ IF Truthy(resp)
             THEN pc' = "dispatch" /\ result' = result
             ELSE pc' = "returned" /\ result' = ReturnValue(resp)
    /\ UNCHANGED <<arg_is_str, error, pending, runs, invoked, checks, failed>>
    /\ UNCHANGED outside

AfterEngineFailureRetry == "call_engine"

\* the exception of client.chat.completions.create leaves the while loop and
\* run_agent: there is no try around the call
AfterEngineFailure == "raised"

\* client.chat.completions.create raises: nothing in run_agent catches it
EngineFails ==
    /\ pc = "call_engine"
    /\ pc' = AfterEngineFailure
    /\ error' = "EngineError"
    /\ engine_calls' = engine_calls + 1
    /\ UNCHANGED <<arg_is_str, messages, result, tool_calls, idx, pending, next_id,
                   runs, responses, invoked, checks, failed>>
    /\ UNCHANGED outside

----------------------------------------------------------------------------
(* handle_tool_calls *)

LoopOrderReversed(n) == [k \in 1..n |-> n - k + 1]

\* for tool_call in tool_calls: the k-th iteration takes the k-th request
LoopOrder(n) == [k \in 1..n |-> k]

CurrentToolCall == tool_calls[LoopOrder(Len(tool_calls))[idx]]

AfterAppendFirstOnly(i, n) == "call_engine"

AfterAppendReturns(i, n) == IF i < n THEN "dispatch" ELSE "returned"

\* the for loop goes on while requests are left; then handle_tool_calls
\* returns and the while loop of run_agent calls the engine again
AfterAppend(i, n) == IF i < n THEN "dispatch" ELSE "call_engine"

\* an exception leaves handle_tool_calls and run_agent
Raise(e) ==
    /\ pc' = "raised"
    /\ error' = e
    /\ UNCHANGED <<pending, invoked, failed>>

\* the first three statements of the loop body: the registry lookup, json.loads
\* and the call of the tool, each of which may raise
InvokeTool ==
    /\ pc = "dispatch"
    /\ LET tc == CurrentToolCall
           parsed == JsonLoads(tc.arguments)
       IN  IF tc.name \notin Registry THEN Raise("KeyError")
           ELSE IF ~parsed.ok THEN Raise("JSONDecodeError")
           ELSE IF ~CallBinds(tc.name, parsed) THEN Raise("TypeError")
           ELSE /\ invoked' = Append(invoked, tc)
                /\ \E succeeds \in BOOLEAN :
                     /\ failed' = IF succeeds THEN failed ELSE failed \cup {tc.id}
                     /\ IF succeeds
                          THEN pc' = "append" /\ pending' = ToolOutput(tc.name) /\ error' = error
                        ELSE IF CatchesFailure(tc.name)
                          THEN pc' = "append" /\ pending' = ERROR_TEXT /\ error' = error
                        ELSE pc' = "raised" /\ error' = "ToolError" /\ pending' = pending
    /\ UNCHANGED <<arg_is_str, messages, result, tool_calls, idx, next_id,
                   runs, engine_calls, responses, checks>>
    /\ UNCHANGED outside

\* messages.append({"role": "tool", ...}) and the step of the for loop
AppendResult ==
    /\ pc = "append"
    /\ messages' = Append(messages, ToolMessage(CurrentToolCall, pending))
    /\ pending' = NONE
    /\ idx' = idx + 1
    /\ pc' = AfterAppend(idx, Len(tool_calls))
    /\ UNCHANGED <<arg_is_str, error, result, tool_calls, next_id,
                   runs, engine_calls, responses, invoked, checks, failed>>
    /\ UNCHANGED outside

----------------------------------------------------------------------------
(* The caller *)

\* the caller passes the list it passed before to run_agent again
Rerun ==
    /\ pc \in {"returned", "raised"}
    /\ ~arg_is_str
    /\ Used < MaxBudget
    /\ runs' = runs + 1
    /\ pc' = "entry"
    /\ error' = "none"
    /\ result' = NONE
    /\ tool_calls' = <<>>
    /\ idx' = 1
    /\ pending' = NONE
    /\ engine_calls' = 0
    /\ responses' = <<>>
    /\ invoked' = <<>>
    /\ UNCHANGED <<arg_is_str, messages, next_id, checks, failed>>
    /\ UNCHANGED outside

Next ==
    \/ EnterRunAgent
    \/ CallEngine
    \/ EngineFails
    \/ InvokeTool
    \/ AppendResult
    \/ Rerun

Spec == Init /\ [][Next]_vars

----------------------------------------------------------------------------
(* Helpers of the properties *)

\* the requests of the assistant messages among the first n messages,
\* as pairs <<position of the message, position in its tool_calls>>
RequestsBefore(n) ==
    { p \in (1..n) \X (1..MaxBudget + 1) :
        /\ messages[p[1]].role = "assistant"
        /\ p[2] <= Len(messages[p[1]].tool_calls) }

\* the positions of the capability-result messages carrying identifier id
ResultsFor(id) ==
    { i \in 1..Len(messages) : messages[i].role = "tool" /\ messages[i].tool_call_id = id }

\* every response of the current invocation carried at least one request
NeverConverged == \A k \in 1..Len(responses) : Truthy(responses[k])

\* the loop of handle_tool_calls has appended the result of request k
ResultAppended(k) == k < idx

\* the failure payloads the specification names
UNKNOWN_CAPABILITY == "UnknownCapability"
INVALID_ARGUMENTS == "InvalidArguments"

\* the iteration cap the specification asks to be configurable (here 2)
IterationCap == 2

----------------------------------------------------------------------------
(* C1 .. C10 *)

\* C1: with an engine that requests a capability on every call, run_agent
\* fails with NonConvergence after exactly IterationCap engine calls: it never
\* stands ready for a further engine call once IterationCap responses with
\* requests were received, and never makes more than IterationCap calls.
C1_NonConvergenceAtCap ==
    (NeverConverged /\ Len(responses) >= IterationCap)
        => (pc # "call_engine" /\ engine_calls <= IterationCap)

\* C2: a request for a capability that is not registered never ends the
\* invocation with an exception; once the loop is past it, a capability-result
\* message with its identifier and the UnknownCapability payload is in the
\* conversation.
C2_UnknownCapabilityAbsorbed ==
    \A k \in 1..Len(tool_calls) :
        tool_calls[k].name \notin Registry =>
            /\ ~(pc = "raised" /\ idx = k /\ error = "KeyError")
            /\ ResultAppended(k) =>
                 \E i \in ResultsFor(tool_calls[k].id) :
                     messages[i].content = UNKNOWN_CAPABILITY

\* C3: a request for a registered capability whose argument payload does not
\* match the declared schema never ends the invocation with an exception and
\* never reaches the capability; once the loop is past it, a capability-result
\* message with its identifier and the InvalidArguments payload is in the
\* conversation.
C3_InvalidArgumentsAbsorbed ==
    \A k \in 1..Len(tool_calls) :
        (tool_calls[k].name \in Registry
           /\ ~SchemaValid(tool_calls[k].name, tool_calls[k].arguments)) =>
            /\ ~(pc = "raised" /\ idx = k /\ error \in {"JSONDecodeError", "TypeError"})
            /\ \A m \in 1..Len(invoked) : invoked[m].id # tool_calls[k].id
            /\ ResultAppended(k) =>
                 \E i \in ResultsFor(tool_calls[k].id) :
                     messages[i].content = INVALID_ARGUMENTS

\* C4: a failure inside a registered capability never leaves the dispatch
\* step as an exception; the failed call's result, once appended, is the
\* textual failure payload.
C4_ExecutionFailureAbsorbed ==
    /\ error # "ToolError"
    /\ \A id \in failed : \A i \in ResultsFor(id) : messages[i].content = ERROR_TEXT

\* C5: every capability-result message carries the identifier of exactly one
\* capability request of an assistant message that precedes it.
C5_RoundTripIntegrity ==
    \A i \in 1..Len(messages) :
        messages[i].role = "tool" =>
            Cardinality({ p \in RequestsBefore(i - 1) :
                messages[p[1]].tool_calls[p[2]].id = messages[i].tool_call_id }) = 1

\* C5 witness: results of two different engine rounds are in the conversation
C5_Witness ==
    \E i, j \in 1..Len(messages) :
        /\ i < j
        /\ messages[i].role = "tool"
        /\ messages[j].role = "tool"
        /\ \E a \in (i + 1)..(j - 1) : messages[a].role = "assistant"

\* C6: when the first response of an invocation carries no request, the
\* invocation has returned that response's text after one engine call and no
\* capability invocation.
C6_PlainAnswerReturned ==
    (Len(responses) >= 1 /\ ~Truthy(responses[1])) =>
        /\ pc = "returned"
        /\ error = "none"
        /\ result = responses[1].content
        /\ engine_calls = 1
        /\ Len(invoked) = 0
        /\ messages[Len(messages)] = AssistantMessage(responses[1])

\* C6 witness: an invocation returned the text "answer" of its first response
C6_Witness ==
    /\ pc = "returned"
    /\ Len(responses) = 1
    /\ result = "answer"

\* the number of capability-result messages that directly follow message j
RECURSIVE ResultsAfter(_)
ResultsAfter(j) ==
    IF j < Len(messages) /\ messages[j + 1].role = "tool"
      THEN 1 + ResultsAfter(j + 1)
      ELSE 0

\* C7: the results that follow an assistant message are those of its requests,
\* in the order of the requests; the capabilities are called in the order of
\* the requests, and a capability is called only when the results of all
\* calls before it are in the conversation.
C7_SequentialInOrder ==
    /\ \A j \in 1..Len(messages) :
         messages[j].role = "assistant" =>
            /\ ResultsAfter(j) <= Len(messages[j].tool_calls)
            /\ \A k \in 1..ResultsAfter(j) :
                 messages[j + k].tool_call_id = messages[j].tool_calls[k].id
    /\ \A m \in 1..Len(invoked) :
         /\ m > 1 => invoked[m - 1].id < invoked[m].id
         /\ m < Len(invoked) => ResultsFor(invoked[m].id) # {}
    /\ pc = "dispatch" => \A m \in 1..Len(invoked) : ResultsFor(invoked[m].id) # {}

\* C7 witness: both results of a response with two requests are appended
C7_Witness ==
    \E j \in 1..Len(messages) :
        /\ messages[j].role = "assistant"
        /\ Len(messages[j].tool_calls) >= 2
        /\ ResultsAfter(j) = Len(messages[j].tool_calls)

\* C8: once the system-prompt check has run on a conversation, however many
\* times, the conversation holds exactly one system message.
C8_OneSystemMessage ==
    checks >= 1 =>
        Cardinality({ i \in 1..Len(messages) : messages[i].role = "system" }) = 1

\* C8 witness: the check ran a second time, on a list an earlier invocation left
C8_Witness ==
    /\ checks >= 2
    /\ pc = "call_engine"
    /\ \E i \in 1..Len(messages) : messages[i].role = "assistant"

IsPrefix(s, t) == Len(s) <= Len(t) /\ \A i \in 1..Len(s) : s[i] = t[i]

\* C9: every step leaves the messages it found in place and unchanged: the
\* conversation before the step is a prefix of the conversation after it.
C9_AppendOnly == [][IsPrefix(messages, messages')]_vars

\* C9 witness: a conversation that grew by a response, its results and a
\* further response
C9_Witness ==
    /\ Len(responses) >= 2
    /\ \E i \in 1..Len(messages) : messages[i].role = "tool"

\* every request of the latest response has its result after that response
BatchComplete ==
    LET r == responses[Len(responses)]
        n == Len(r.tool_calls)
    IN  /\ Len(messages) > n
        /\ messages[Len(messages) - n] = AssistantMessage(r)
        /\ \A k \in 1..n :
             /\ messages[Len(messages) - n + k].role = "tool"
             /\ messages[Len(messages) - n + k].tool_call_id = r.tool_calls[k].id

\* C10: within an invocation the engine is called again only when every
\* request of its latest response has its result in the conversation, and a
\* capability is called only for a request of the latest response, before
\* the next engine call.
C10_StrictAlternation ==
    [][ /\ (engine_calls' = engine_calls + 1 /\ Len(responses) >= 1) =>
             (Truthy(responses[Len(responses)]) /\ BatchComplete)
        /\ Len(invoked') > Len(invoked) =>
             /\ Len(responses) >= 1
             /\ responses' = responses
             /\ \E k \in 1..Len(responses[Len(responses)].tool_calls) :
                  invoked' = Append(invoked, responses[Len(responses)].tool_calls[k])
             /\ ResultsAfter(Len(messages)) = 0
      ]_vars

\* C10 witness: a second engine call was made after a response with two requests
C10_Witness ==
    /\ Len(responses) >= 2
    /\ Len(responses[1].tool_calls) = 2

\* C11: a failing engine call ends the invocation with the engine's error
\* and appends nothing; once the invocation has ended so, nothing of it goes
\* on: no engine call, no capability call, no append (the caller may only
\* start a new invocation).
C11_EngineFailureFatal ==
    [][ /\ (engine_calls' = engine_calls + 1 /\ responses' = responses) =>
             /\ pc' = "raised"
             /\ error' = "EngineError"
             /\ messages' = messages
             /\ invoked' = invoked
        /\ (pc = "raised" /\ error = "EngineError") =>
             /\ pc' \in {"raised", "entry"}
             /\ engine_calls' <= engine_calls
             /\ Len(invoked') <= Len(invoked)
             /\ messages' = messages
      ]_vars

\* C11 witness: the engine call failed after a round with a capability call
C11_Witness ==
    /\ pc = "raised"
    /\ error = "EngineError"
    /\ Len(responses) >= 1
    /\ Len(invoked) >= 1

\* C12: when the latest response has empty or null text and no request
\* (tool_calls null or an empty list), the invocation has returned that text
\* without an exception, the response is the last message and no engine call
\* followed it.
C12_EmptyAnswerTerminal ==
    (Len(responses) >= 1
       /\ responses[Len(responses)].content \in {"", NONE}
       /\ Len(responses[Len(responses)].tool_calls) = 0) =>
        /\ pc = "returned"
        /\ error = "none"
        /\ result = responses[Len(responses)].content
        /\ messages[Len(messages)] = AssistantMessage(responses[Len(responses)])
        /\ engine_calls = Len(responses)

\* C12 witness: null text with an empty (not null) tool_calls list was returned
\* after a round of capability calls
C12_Witness ==
    /\ pc = "returned"
    /\ Len(responses) >= 2
    /\ result = NONE
    /\ ~responses[Len(responses)].tc_none

----------------------------------------------------------------------------
(* Two interactions: run_agent called twice, the calls interleaved.  The     *)
(* variables of run_agent hold the interaction that runs; `other` holds the  *)
(* one that waits.  A list passed as the argument is used as it is (no copy  *)
(* is made), so two calls that were passed one list object work on one list. *)

\* the locals of the interaction that runs, to be put aside
Locals ==
    [arg_is_str |-> arg_is_str, pc |-> pc, error |-> error, result |-> result,
     tool_calls |-> tool_calls, idx |-> idx, pending |-> pending,
     engine_calls |-> engine_calls, responses |-> responses, invoked |-> invoked,
     list |-> IF shared THEN <<>> ELSE messages,
     switches |-> other.switches + 1]

\* the locals of an interaction that has not started yet
Waiting(is_str, list) ==
    [arg_is_str |-> is_str, pc |-> "entry", error |-> "none", result |-> NONE,
     tool_calls |-> <<>>, idx |-> 1, pending |-> NONE,
     engine_calls |-> 0, responses |-> <<>>, invoked |-> <<>>,
     list |-> list, switches |-> 0]

InitTwo ==
    /\ arg_is_str \in BOOLEAN
    /\ messages \in (IF arg_is_str THEN {<<>>} ELSE InitialLists)
    /\ pc = "entry"
    /\ error = "none"
    /\ result = NONE
    /\ tool_calls = <<>>
    /\ idx = 1
    /\ pending = NONE
    /\ next_id = 1
    /\ runs = 2
    /\ engine_calls = 0
    /\ responses = <<>>
    /\ invoked = <<>>
    /\ checks = 0
    /\ failed = {}
    /\ shared \in (IF arg_is_str THEN {FALSE} ELSE BOOLEAN)
    /\ other \in (IF shared
                    THEN { Waiting(FALSE, <<>>) }
                    ELSE { Waiting(TRUE, <<>>) }
                           \cup { Waiting(FALSE, l) : l \in InitialLists })
    /\ stop_requested = FALSE
    /\ chart = [pc |-> "absent"]

\* the interaction that runs is put aside and the one that waits goes on;
\* with one list object for both, the list stays where it is
Switch ==
    /\ other.pc \notin {"absent", "returned", "raised"}
    /\ other.switches < MaxSwitches
    /\ other' = Locals
    /\ arg_is_str' = other.arg_is_str
    /\ pc' = other.pc
    /\ error' = other.error
    /\ result' = other.result
    /\ tool_calls' = other.tool_calls
    /\ idx' = other.idx
    /\ pending' = other.pending
    /\ engine_calls' = other.engine_calls
    /\ responses' = other.responses
    /\ invoked' = other.invoked
    /\ messages' = IF shared THEN messages ELSE other.list
    /\ UNCHANGED <<next_id, runs, checks, failed, shared, stop_requested, chart>>

NextTwo ==
    \/ EnterRunAgent
    \/ CallEngine
    \/ EngineFails
    \/ InvokeTool
    \/ AppendResult
    \/ Switch

SpecTwo == InitTwo /\ [][NextTwo]_vars

\* both interactions have entered run_agent and neither has ended
BothInFlight ==
    /\ pc \notin {"entry", "returned", "raised"}
    /\ other.pc \notin {"absent", "entry", "returned", "raised"}

\* the messages of the snapshot are the interaction's own: its assistant
\* messages are its own responses, its results answer its own capability calls
OwnSnapshot ==
    /\ Cardinality({ i \in 1..Len(messages) : messages[i].role = "assistant" })
         = Len(responses)
    /\ \A i \in 1..Len(messages) :
         /\ messages[i].role = "assistant" =>
              \E k \in 1..Len(responses) : messages[i] = AssistantMessage(responses[k])
         /\ messages[i].role = "tool" =>
              \E m \in 1..Len(invoked) : invoked[m].id = messages[i].tool_call_id

\* C13: while two interactions are in flight, however they were started and
\* interleaved, the snapshot the running one passes to the engine holds no
\* message the other one appended.
C13_ExclusiveState ==
    (BothInFlight /\ pc = "call_engine") => OwnSnapshot

----------------------------------------------------------------------------
(* Cancellation: a caller signals a running interaction to stop.  run_agent  *)
(* has no parameter, flag or check for such a signal: no action reads it.    *)

\* the caller raises the stop signal while the interaction is in flight
RaiseStop ==
    /\ pc \in {"call_engine", "dispatch", "append"}
    /\ ~stop_requested
    /\ stop_requested' = TRUE
    /\ UNCHANGED <<arg_is_str, messages, pc, error, result, tool_calls, idx, pending,
                   next_id, runs, engine_calls, responses, invoked, checks, failed,
                   other, shared, chart>>

NextCancel ==
    \/ EnterRunAgent
    \/ CallEngine
    \/ EngineFails
    \/ InvokeTool
    \/ AppendResult
    \/ RaiseStop

SpecCancel == Init /\ [][NextCancel]_vars

\* C14: once the stop signal is raised the interaction makes no further
\* engine call; what it appended stays as it is (no rollback), and a
\* capability call in progress may still append its result.
C14_StopsBeforeNextEngineCall ==
    [][ stop_requested =>
          /\ engine_calls' = engine_calls
          /\ IsPrefix(messages, messages')
      ]_vars

----------------------------------------------------------------------------
(* C15 .. C19 *)

\* the number of requests of the first n responses of the invocation
RECURSIVE RequestCount(_, _)
RequestCount(resps, n) ==
    IF n = 0 THEN 0 ELSE Len(resps[n].tool_calls) + RequestCount(resps, n - 1)

\* C15: when a response without requests arrives after k responses with
\* requests whose calls all returned, the invocation returns that response's
\* text after exactly k + 1 engine calls, with that response as the last
\* message; it returns at no other point, and once it has returned it makes
\* no further engine call, capability call or append.
C15_ConvergesAtFirstPlainResponse ==
    [][ /\ (Len(responses') >= 1 /\ ~Truthy(responses'[Len(responses')])) =>
             /\ \A k \in 1..(Len(responses') - 1) : Truthy(responses'[k])
             /\ pc' = "returned"
             /\ error' = "none"
             /\ engine_calls' = Len(responses')
             /\ result' = responses'[Len(responses')].content
             /\ messages'[Len(messages')] = AssistantMessage(responses'[Len(responses')])
             /\ Len(invoked') = RequestCount(responses', Len(responses'))
        /\ pc' = "returned" =>
             (Len(responses') >= 1 /\ ~Truthy(responses'[Len(responses')]))
        /\ pc = "returned" =>
             /\ pc' \in {"returned", "entry"}
             /\ engine_calls' <= engine_calls
             /\ Len(invoked') <= Len(invoked)
             /\ messages' = messages
      ]_vars

\* C15 witness: an invocation returned at its third response, after two
\* rounds of capability calls
C15_Witness ==
    /\ pc = "returned"
    /\ Len(responses) = 3
    /\ Len(invoked) = 2
    /\ engine_calls = 3

\* C16: every capability call is a request of the latest response, and once
\* the round of a response is over each of its requests was called exactly
\* once and has exactly one result in the conversation.
C16_EachRequestInvokedOnce ==
    /\ \A m \in 1..Len(invoked) :
         \E k \in 1..Len(responses) : \E j \in 1..Len(responses[k].tool_calls) :
             invoked[m] = responses[k].tool_calls[j]
    /\ (Len(responses) >= 1 /\ pc \notin {"dispatch", "append"}) =>
         LET r == responses[Len(responses)]
         IN  \A k \in 1..Len(r.tool_calls) :
               /\ Cardinality({ m \in 1..Len(invoked) : invoked[m].id = r.tool_calls[k].id }) = 1
               /\ Cardinality(ResultsFor(r.tool_calls[k].id)) = 1

\* C18: whenever run_agent stands before an engine call, every request of
\* every assistant message of the conversation has exactly one result with
\* its identifier later in the conversation.
C18_NoDanglingRequest ==
    pc = "call_engine" =>
        \A p \in RequestsBefore(Len(messages)) :
            Cardinality({ i \in ResultsFor(messages[p[1]].tool_calls[p[2]].id) : i > p[1] }) = 1

\* the system messages of a conversation
SystemPositions(msgs) == { i \in 1..Len(msgs) : msgs[i].role = "system" }

\* C19: the step that starts run_agent leaves for the first engine call the
\* initial messages in their order followed by one system message at the end
\* when they held no system message, and the initial messages unchanged when
\* they held one.
C19_PromptAppendedAfterQuery ==
    [][ pc = "entry" =>
          LET init == IF arg_is_str THEN <<UserMessage(Query)>> ELSE messages
          IN  /\ pc' = "call_engine"
              /\ engine_calls' = 0
              /\ IF SystemPositions(init) = {}
                   THEN /\ Len(messages') = Len(init) + 1
                        /\ IsPrefix(init, messages')
                        /\ SystemPositions(messages') = {Len(messages')}
                        /\ messages'[Len(messages')] = SystemMessage
                   ELSE messages' = init
      ]_vars

\* C19 witness: a query string became the user message followed by the prompt
C19_Witness ==
    /\ pc = "call_engine"
    /\ engine_calls = 0
    /\ arg_is_str
    /\ messages = <<UserMessage(Query), SystemMessage>>

----------------------------------------------------------------------------
(* extract_chart_config: step 1 of the tool generate_visualization           *)

\* Python values as the code sees them: a str, None, or a VisualizationConfig
PyStr(text) == [type |-> "str", value |-> text]
PyNone == [type |-> "NoneType"]
PyConfig(c) == [type |-> "VisualizationConfig", chart_type |-> c.chart_type,
                x_axis |-> c.x_axis, y_axis |-> c.y_axis, title |-> c.title]

\* the values of the parameters data and visualization_goal
ChartData == {"rows_store_1320", "rows_november", ""}
ChartGoals == {"bar chart of sales by SKU", "sales over time", "promo share"}

\* the chart configurations the engine may choose
EngineConfigs ==
    [chart_type : {"bar", "line"}, x_axis : {"SKU_Coded", "date"},
     y_axis : {"Total_Sale_Value", "value"}, title : {"Sales by SKU", "sales over time"}]

\* the JSON text of a configuration, as a sequence of tokens
JsonText(c) == <<"{", c.chart_type, c.x_axis, c.y_axis, c.title, "}">>

\* texts that are no VisualizationConfig: cut off, or with a field missing
MalformedTexts == { <<"{", "bar", "SKU_Coded">>, <<"{", "bar", "SKU_Coded", "}">>, <<>> }

\* the text validates against VisualizationConfig: all four fields, closed
Validates(text) == Len(text) = 6 /\ text[1] = "{" /\ text[6] = "}"

\* the message of a structured-output response: content is the raw text (or
\* None for a refusal), parsed is the validated object (or None)
ParsedMessage(text) ==
    [content |-> PyStr(text),
     parsed  |-> IF Validates(text)
                   THEN PyConfig([chart_type |-> text[2], x_axis |-> text[3],
                                  y_axis |-> text[4], title |-> text[5]])
                   ELSE PyNone]
RefusalMessage == [content |-> PyNone, parsed |-> PyNone]

NoMessage == [content |-> PyNone, parsed |-> PyNone, absent |-> TRUE]
NoConfig == [type |-> "NoneType"]

\* attribute access raises AttributeError unless the object has the fields
HasConfigAttributes(obj) == obj.type = "VisualizationConfig"

\* content = response.choices[0].message.content
ContentRead(message) == message.content

\* the dictionary of the except branch
DefaultConfig(data, goal) ==
    [chart_type |-> "line", x_axis |-> "date", y_axis |-> "value",
     title |-> goal, data |-> data]

\* the dictionary of the try branch
ConfigFrom(content, data) ==
    [chart_type |-> content.chart_type, x_axis |-> content.x_axis,
     y_axis |-> content.y_axis, title |-> content.title, data |-> data]

\* extract_chart_config(data, visualization_goal) is called
InitChart ==
    /\ arg_is_str = TRUE
    /\ messages = <<>>
    /\ pc = "entry"
    /\ error = "none"
    /\ result = NONE
    /\ tool_calls = <<>>
    /\ idx = 1
    /\ pending = NONE
    /\ next_id = 1
    /\ runs = 1
    /\ engine_calls = 0
    /\ responses = <<>>
    /\ invoked = <<>>
    /\ checks = 0
    /\ failed = {}
    /\ other = [pc |-> "absent"]
    /\ shared = FALSE
    /\ stop_requested = FALSE
    /\ chart \in [pc : {"called"}, data : ChartData, goal : ChartGoals,
                  message : {NoMessage}, config : {NoConfig}]

agent == <<arg_is_str, messages, pc, error, result, tool_calls, idx, pending, next_id,
           runs, engine_calls, responses, invoked, checks, failed,
           other, shared, stop_requested>>

\* client.beta.chat.completions.parse returns a response
ChartParse ==
    /\ chart.pc = "called"
    /\ \E m \in {ParsedMessage(JsonText(c)) : c \in EngineConfigs}
                  \cup {ParsedMessage(t) : t \in MalformedTexts} \cup {RefusalMessage} :
         chart' = [chart EXCEPT !.pc = "parsed", !.message = m]
    /\ UNCHANGED agent

\* client.beta.chat.completions.parse raises on a text that does not
\* validate; the call stands before the try
ChartParseRaises ==
    /\ chart.pc = "called"
    /\ \E t \in MalformedTexts :
         chart' = [chart EXCEPT !.pc = "raised", !.message = ParsedMessage(t)]
    /\ UNCHANGED agent

\* the try/except: the attributes of content are read, any exception gives
\* the default dictionary
ChartReturn ==
    /\ chart.pc = "parsed"
    /\ LET content == ContentRead(chart.message)
       IN  chart' = [chart EXCEPT !.pc = "returned",
                       !.config = IF HasConfigAttributes(content)
                                    THEN ConfigFrom(content, chart.data)
                                    ELSE DefaultConfig(chart.data, chart.goal)]
    /\ UNCHANGED agent

NextChart ==
    \/ ChartParse
    \/ ChartParseRaises
    \/ ChartReturn

SpecChart == InitChart /\ [][NextChart]_vars

\* the engine's structured output is well formed
WellFormedOutput == chart.message.content.type = "str" /\ Validates(chart.message.content.value)

\* C17: extract_chart_config never raises and returns the input data
\* unchanged; for a well-formed structured output it returns the engine's
\* chart_type, x_axis, y_axis and title, and for a malformed one the default
\* configuration (line, date, value, title = the goal).
C17_DefaultIffMalformed ==
    chart.pc \in {"returned", "raised"} =>
        /\ chart.pc = "returned"
        /\ chart.config.data = chart.data
        /\ IF WellFormedOutput
             THEN chart.config = ConfigFrom(chart.message.parsed, chart.data)
             ELSE chart.config = DefaultConfig(chart.data, chart.goal)

====
